---- MODULE Spec2Model ----
(***************************************************************************)
(* Model of budget.py: the Category ledger (deposit, withdraw, transfer,   *)
(* check_funds) with the class-wide total_withdrawn, and the spend chart   *)
(* (create_spend_chart: build_array, build_string).                        *)
(*                                                                         *)
(* Amounts are integers (whole currency units); Python's floats are not    *)
(* modelled, so rounding of float arithmetic is outside the model.         *)
(* Strings are sequences of one-character strings.                         *)
(***************************************************************************)
EXTENDS Integers, Sequences, FiniteSets, TLC

VARIABLES name, balance, amount_withdrawn, ledger, total_withdrawn, last

vars == <<name, balance, amount_withdrawn, ledger, total_withdrawn, last>>

\* ------------------------------------------------------------------ bounds
\* most ledger entries (over all categories) before a call that may add one
MaxLedger == 3
\* largest amount passed to deposit, withdraw and transfer
MaxAmount == 1
\* longest category list passed to create_spend_chart
MaxChart == 2
\* largest amount withdrawn from one category before a chart is drawn
MaxWithdrawn == 3
\* most calls made on a category before its report is printed
MaxReport == 2

\* ------------------------------------------------------------------ inputs
\* the Category objects of the process
Categories == {"c1", "c2"}

\* amounts a caller may pass: negative, zero and positive
Amounts == {-1} \cup (0 .. MaxAmount)

\* names a Category may be constructed with
Names == { <<"f", "o", "o", "d">>, <<"a", "B">> }

\* descriptions a caller may pass to deposit and withdraw ("" is the default)
Descriptions == { <<>>, <<"d">> }

\* category lists a caller may pass to create_spend_chart
CategoryLists == UNION { [1 .. n -> Categories] : n \in 0 .. MaxChart }

\* ------------------------------------------------------------------ Category
\* the mutable state the methods work on, as one value
State ==
    [ balance |-> balance, amount_withdrawn |-> amount_withdrawn,
      ledger |-> ledger, total_withdrawn |-> total_withdrawn ]

\* "Transfer to " and "Transfer from "
TransferTo == <<"T", "r", "a", "n", "s", "f", "e", "r", " ", "t", "o", " ">>

TransferFrom ==
    <<"T", "r", "a", "n", "s", "f", "e", "r", " ", "f", "r", "o", "m", " ">>

\* check_funds with the comparison made strict on the wrong side
check_funds_strict(st, self, amount) ==
    IF amount >= st.balance[self] THEN FALSE ELSE TRUE

\* check_funds that never refuses
check_funds_always(st, self, amount) == TRUE

check_funds(st, self, amount) ==
    IF amount > st.balance[self] THEN FALSE ELSE TRUE

\* deposit that replaces the ledger by the new entry
deposit_overwrite(st, self, amount, description) ==
    [st EXCEPT
        !.balance[self] = @ + amount,
        !.ledger[self] =
            <<[amount |-> amount, description |-> description]>>]

\* deposit that books a negative amount as a withdrawal as well
deposit_books_negative(st, self, amount, description) ==
    [st EXCEPT
        !.balance[self] = @ + amount,
        !.amount_withdrawn[self] = IF amount < 0 THEN @ - amount ELSE @,
        !.total_withdrawn = IF amount < 0 THEN @ - amount ELSE @,
        !.ledger[self] =
            Append(@, [amount |-> amount, description |-> description])]

\* deposit that forgets the ledger entry
deposit_no_entry(st, self, amount, description) ==
    [st EXCEPT !.balance[self] = @ + amount]

deposit(st, self, amount, description) ==
    [st EXCEPT
        !.balance[self] = @ + amount,
        !.ledger[self] =
            Append(@, [amount |-> amount, description |-> description])]

\* withdraw that writes its ledger entry whether or not the funds suffice
withdraw_always_logs(st, self, amount, description) ==
    IF check_funds(st, self, amount)
    THEN [ st |-> [st EXCEPT
                     !.balance[self] = @ - amount,
                     !.amount_withdrawn[self] = @ + amount,
                     !.total_withdrawn = @ + amount,
                     !.ledger[self] =
                         Append(@, [amount |-> 0 - amount,
                                    description |-> description])],
           ret |-> TRUE ]
    ELSE [ st |-> [st EXCEPT
                     !.ledger[self] =
                         Append(@, [amount |-> 0 - amount,
                                    description |-> description])],
           ret |-> FALSE ]

\* withdraw that forgets the class-wide total
withdraw_no_total(st, self, amount, description) ==
    IF check_funds(st, self, amount)
    THEN [ st |-> [st EXCEPT
                     !.balance[self] = @ - amount,
                     !.amount_withdrawn[self] = @ + amount,
                     !.ledger[self] =
                         Append(@, [amount |-> 0 - amount,
                                    description |-> description])],
           ret |-> TRUE ]
    ELSE [ st |-> st, ret |-> FALSE ]

withdraw(st, self, amount, description) ==
    IF check_funds(st, self, amount)
    THEN [ st |-> [st EXCEPT
                     !.balance[self] = @ - amount,
                     !.amount_withdrawn[self] = @ + amount,
                     !.total_withdrawn = @ + amount,
                     !.ledger[self] =
                         Append(@, [amount |-> 0 - amount,
                                    description |-> description])],
           ret |-> TRUE ]
    ELSE [ st |-> st, ret |-> FALSE ]

\* transfer that adds the amount to the class-wide total itself as well
transfer_double(st, self, amount, category) ==
    IF check_funds(st, self, amount)
    THEN LET w == withdraw(st, self, amount, TransferTo \o name[category])
             d == deposit(w.st, category, amount, TransferFrom \o name[self])
         IN  [ st |-> [d EXCEPT !.total_withdrawn = @ + amount], ret |-> TRUE ]
    ELSE [ st |-> st, ret |-> FALSE ]

\* transfer without its own funds check: the deposit happens regardless
transfer_unchecked(st, self, amount, category) ==
    LET w == withdraw(st, self, amount, TransferTo \o name[category])
    IN  [ st |-> deposit(w.st, category, amount, TransferFrom \o name[self]),
          ret |-> w.ret ]

transfer(st, self, amount, category) ==
    IF check_funds(st, self, amount)
    THEN LET w == withdraw(st, self, amount, TransferTo \o name[category])
         IN  [ st |-> deposit(w.st, category, amount,
                              TransferFrom \o name[self]),
               ret |-> TRUE ]
    ELSE [ st |-> st, ret |-> FALSE ]

get_balance(st, self) == st.balance[self]

\* ------------------------------------------------------------------ strings
Letters ==
    << <<"a", "A">>, <<"b", "B">>, <<"d", "D">>, <<"f", "F">>, <<"o", "O">> >>

\* str.upper and str.lower on one character
Upper(ch) ==
    IF \E i \in 1 .. Len(Letters) : Letters[i][1] = ch
    THEN Letters[CHOOSE i \in 1 .. Len(Letters) : Letters[i][1] = ch][2]
    ELSE ch

Lower(ch) ==
    IF \E i \in 1 .. Len(Letters) : Letters[i][2] = ch
    THEN Letters[CHOOSE i \in 1 .. Len(Letters) : Letters[i][2] = ch][1]
    ELSE ch

\* capitalize that leaves the characters after the first as they are
capitalize_first_only(s) ==
    [i \in 1 .. Len(s) |-> IF i = 1 THEN Upper(s[i]) ELSE s[i]]

\* str.capitalize: first character upper case, the rest lower case
capitalize(s) ==
    [i \in 1 .. Len(s) |-> IF i = 1 THEN Upper(s[i]) ELSE Lower(s[i])]

DigitChars == <<"0", "1", "2", "3", "4", "5", "6", "7", "8", "9">>

\* f"{num}" of a non-negative integer
RECURSIVE Decimal(_)
Decimal(num) ==
    IF num < 10 THEN <<DigitChars[num + 1]>>
    ELSE Decimal(num \div 10) \o <<DigitChars[(num % 10) + 1]>>

\* ------------------------------------------------------------------ chart
\* a cell np.empty leaves unset
None == <<"None">>

Max(S) == CHOOSE x \in S : \A y \in S : y <= x

\* len(max([obj.name for obj in categories], key=len))
longest_name(categories) ==
    Max({Len(name[categories[i]]) : i \in 1 .. Len(categories)})

\* the indices a[start:stop] selects on an axis of the given length
SliceIndices(start, stop, length) ==
    LET clip(i) == IF i < 0 THEN (IF i + length < 0 THEN 0 ELSE i + length)
                   ELSE (IF i > length THEN length ELSE i)
    IN  { i \in 0 .. length - 1 : clip(start) <= i /\ i < clip(stop) }

\* (math.floor((obj.amount_withdrawn / Category.total_withdrawn) * 100) // 10) * 10
percentage_spent(st, obj) ==
    (((st.amount_withdrawn[obj] * 100) \div st.total_withdrawn) \div 10) * 10

\* array with the cells of one column, at the given rows, set to value
SetColumn(array, rows, col, value) ==
    [r \in DOMAIN array |->
        [c \in DOMAIN array[r] |->
            IF r \in rows /\ c = col THEN value ELSE array[r][c]]]

\* array with the cells of one row, at the given columns, set to value
SetRow(array, row, cols, value) ==
    [r \in DOMAIN array |->
        [c \in DOMAIN array[r] |->
            IF r = row /\ c \in cols THEN value ELSE array[r][c]]]

\* for row, num in zip(range(12), range(100, -10, -10)): array[row, 0] = num
RECURSIVE YAxis(_, _)
YAxis(array, row) ==
    IF row > 10 THEN array
    ELSE YAxis(SetColumn(array, {row}, 0, Decimal(100 - 10 * row)), row + 1)

\* for char, index in zip(obj.name.capitalize(), range(12, 12 + longest_name))
RECURSIVE NameChars(_, _, _, _, _)
NameChars(array, col, text, i, longest) ==
    IF i > Len(text) \/ i > longest THEN array
    ELSE NameChars(SetColumn(array, {11 + i}, col, <<text[i]>>),
                   col, text, i + 1, longest)

\* for row in range(3, (len(categories) * 3) + 3, 3): ... (row is a column of
\* the array: the code writes through array.T)
RECURSIVE Bars(_, _, _, _)
Bars(array, categories, st, row) ==
    IF row >= (Len(categories) * 3) + 3 THEN array
    ELSE LET obj == categories[row \div 3]
             p == percentage_spent(st, obj)
             height == Cardinality(DOMAIN array)
             marked == SetColumn(array,
                                 SliceIndices(10 - (p \div 10), 11, height),
                                 row, <<"o">>)
         IN  Bars(NameChars(marked, row, capitalize(name[obj]), 1,
                            longest_name(categories)),
                  categories, st, row + 3)

\* the exception build_array ends in, or "none"
Raises(categories, st) ==
    IF categories = <<>> THEN "ValueError"
    ELSE IF st.total_withdrawn = 0 THEN "ZeroDivisionError"
    ELSE "none"

build_array(categories, st) ==
    LET height == longest_name(categories) + 12
        width == Len(categories) + (Len(categories) * 2) + 3
        empty == [r \in 0 .. height - 1 |-> [c \in 0 .. width - 1 |-> None]]
        axis == YAxis(empty, 0)
        pipes == SetColumn(axis, SliceIndices(0, 11, height), 1, <<"|">>)
        dashes == SetRow(pipes, 11, SliceIndices(2, width, width), <<"-">>)
    IN  Bars(dashes, categories, st, 3)

Title ==
    <<"P", "e", "r", "c", "e", "n", "t", "a", "g", "e", " ",
      "s", "p", "e", "n", "t", " ", "b", "y", " ",
      "c", "a", "t", "e", "g", "o", "r", "y", "\n">>

\* CellString with one space of padding for every row below the first
CellString_one_space(index, subdex, cell) ==
    (IF subdex = 0 /\ index > 0 THEN <<" ">> ELSE <<>>)
    \o (IF cell # None THEN cell ELSE <<" ">>)

\* CellString that renders an unset cell as two spaces
CellString_wide_blank(index, subdex, cell) ==
    (IF subdex = 0 /\ index > 0 THEN <<" ">> ELSE <<>>)
    \o (IF subdex = 0 /\ index >= 10 THEN <<" ">> ELSE <<>>)
    \o (IF cell # None THEN cell ELSE <<" ", " ">>)

\* what one cell adds to the string
CellString(index, subdex, cell) ==
    (IF subdex = 0 /\ index > 0 THEN <<" ">> ELSE <<>>)
    \o (IF subdex = 0 /\ index >= 10 THEN <<" ">> ELSE <<>>)
    \o (IF cell # None THEN cell ELSE <<" ">>)

RECURSIVE RowString(_, _, _)
RowString(row, index, subdex) ==
    IF subdex \notin DOMAIN row THEN <<>>
    ELSE CellString(index, subdex, row[subdex])
         \o RowString(row, index, subdex + 1)

\* RowsString that ends every row, the last one too, with a line break
RECURSIVE RowsString_trailing(_, _)
RowsString_trailing(chart, index) ==
    IF index \notin DOMAIN chart THEN <<>>
    ELSE RowString(chart[index], index, 0)
         \o <<"\n">>
         \o RowsString_trailing(chart, index + 1)

RECURSIVE RowsString(_, _)
RowsString(chart, index) ==
    IF index \notin DOMAIN chart THEN <<>>
    ELSE RowString(chart[index], index, 0)
         \o (IF (index + 1) < Cardinality(DOMAIN chart) THEN <<"\n">> ELSE <<>>)
         \o RowsString(chart, index + 1)

build_string(chart) == Title \o RowsString(chart, 0)

\* create_spend_chart with a guard that returns the bare title when nothing
\* was withdrawn
create_spend_chart_guarded(categories, st) ==
    IF Raises(categories, st) = "ValueError"
    THEN [ status |-> "ValueError", array |-> <<>>, string |-> <<>> ]
    ELSE IF st.total_withdrawn = 0
    THEN [ status |-> "ok", array |-> <<>>, string |-> Title ]
    ELSE LET chart_array == build_array(categories, st)
         IN  [ status |-> "ok", array |-> chart_array,
               string |-> build_string(chart_array) ]

\* status "ok": the array built and the string returned; otherwise the
\* exception the call ends in, and nothing returned
create_spend_chart(categories, st) ==
    IF Raises(categories, st) # "none"
    THEN [ status |-> Raises(categories, st), array |-> <<>>, string |-> <<>> ]
    ELSE LET chart_array == build_array(categories, st)
         IN  [ status |-> "ok", array |-> chart_array,
               string |-> build_string(chart_array) ]

\* ------------------------------------------------------------------ report
Min(a, b) == IF a < b THEN a ELSE b

\* s[0:n]
Take(s, n) == SubSeq(s, 1, Min(n, Len(s)))

Fill(n, fillchar) == [i \in 1 .. n |-> fillchar]

\* str.ljust and str.rjust
ljust(s, width, fillchar) ==
    IF Len(s) >= width THEN s ELSE s \o Fill(width - Len(s), fillchar)

rjust(s, width, fillchar) ==
    IF Len(s) >= width THEN s ELSE Fill(width - Len(s), fillchar) \o s

\* str.center: of an odd margin the smaller half goes to the left, unless
\* the width is odd too
center(s, width, fillchar) ==
    IF Len(s) >= width THEN s
    ELSE LET marg == width - Len(s)
             left == (marg \div 2)
                     + (IF marg % 2 = 1 /\ width % 2 = 1 THEN 1 ELSE 0)
         IN  Fill(left, fillchar) \o s \o Fill(marg - left, fillchar)

\* f"{amount:.2f}" of a whole amount
TwoDecimals(amount) ==
    (IF amount < 0 THEN <<"-">> ELSE <<>>)
    \o Decimal(IF amount < 0 THEN 0 - amount ELSE amount)
    \o <<".", "0", "0">>

\* f"{balance}" of a float that holds a whole amount
FloatString(amount) ==
    (IF amount < 0 THEN <<"-">> ELSE <<>>)
    \o Decimal(IF amount < 0 THEN 0 - amount ELSE amount)
    \o <<".", "0">>

\* the ledger line with the amount padded but not cut to 7 characters
LedgerLine_uncut(item) ==
    ljust(Take(item.description, 23), 23, " ")
    \o rjust(TwoDecimals(item.amount), 7, " ")
    \o <<"\n">>

\* what one ledger item adds to the report
LedgerLine(item) ==
    ljust(Take(item.description, 23), 23, " ")
    \o rjust(Take(TwoDecimals(item.amount), 7), 7, " ")
    \o <<"\n">>

RECURSIVE LedgerLines(_)
LedgerLines(items) ==
    IF items = <<>> THEN <<>>
    ELSE LedgerLine(items[1]) \o LedgerLines(SubSeq(items, 2, Len(items)))

\* "Total: "
Total == <<"T", "o", "t", "a", "l", ":", " ">>

\* Category.__str__
str(st, self) ==
    center(name[self], 30, "*") \o <<"\n">>
    \o LedgerLines(st.ledger[self])
    \o Total \o FloatString(st.balance[self])

\* ------------------------------------------------------------------ calls
\* the record of the latest call: its arguments and what it returned
NoChart == [ status |-> "none", array |-> <<>>, string |-> <<>> ]

Call(op, self, amount, description, category, categories, ret, chart) ==
    [ op |-> op, self |-> self, amount |-> amount,
      description |-> description, category |-> category,
      categories |-> categories, ret |-> ret, chart |-> chart ]

\* the state a method leaves behind
Becomes(st) ==
    /\ balance' = st.balance
    /\ amount_withdrawn' = st.amount_withdrawn
    /\ ledger' = st.ledger
    /\ total_withdrawn' = st.total_withdrawn
    /\ UNCHANGED name

RECURSIVE SumAmounts(_)
SumAmounts(entries) ==
    IF entries = <<>> THEN 0
    ELSE SumAmounts(SubSeq(entries, 1, Len(entries) - 1))
         + entries[Len(entries)].amount

RECURSIVE SumOver(_, _)
SumOver(f, S) ==
    IF S = {} THEN 0
    ELSE LET x == CHOOSE y \in S : TRUE IN f[x] + SumOver(f, S \ {x})

\* ledger entries of all categories together
Entries == SumOver([c \in Categories |-> Len(ledger[c])], Categories)

Init ==
    /\ name = ("c1" :> <<"f", "o", "o", "d">> @@ "c2" :> <<"a", "B">>)
    /\ balance = [c \in Categories |-> 0]
    /\ amount_withdrawn = [c \in Categories |-> 0]
    /\ ledger = [c \in Categories |-> <<>>]
    /\ total_withdrawn = 0
    /\ last = Call("none", "c1", 0, <<>>, "c1", <<>>, FALSE, NoChart)

Deposit(self, amount, description) ==
    /\ Entries < MaxLedger
    /\ Becomes(deposit(State, self, amount, description))
    /\ last' = Call("deposit", self, amount, description, self, <<>>, TRUE,
                    NoChart)

Withdraw(self, amount, description) ==
    /\ Entries < MaxLedger
    /\ LET r == withdraw(State, self, amount, description)
       IN  /\ Becomes(r.st)
           /\ last' = Call("withdraw", self, amount, description, self, <<>>,
                           r.ret, NoChart)

Transfer(self, amount, category) ==
    /\ Entries < MaxLedger
    /\ LET r == transfer(State, self, amount, category)
       IN  /\ Becomes(r.st)
           /\ last' = Call("transfer", self, amount, <<>>, category, <<>>,
                           r.ret, NoChart)

CreateSpendChart(categories) ==
    /\ last' = Call("create_spend_chart", "c1", 0, <<>>, "c1", categories,
                    FALSE, create_spend_chart(categories, State))
    /\ UNCHANGED <<name, balance, amount_withdrawn, ledger, total_withdrawn>>

Next ==
    \/ \E c \in Categories, a \in Amounts, d \in Descriptions : Deposit(c, a, d)
    \/ \E c \in Categories, a \in Amounts, d \in Descriptions : Withdraw(c, a, d)
    \/ \E c \in Categories, a \in Amounts, t \in Categories : Transfer(c, a, t)

Spec == Init /\ [][Next]_vars

\* ------------------------------------------------------------------ charts
\* amounts withdrawn from a category before a chart is drawn
Withdrawals == {-1} \cup (0 .. MaxWithdrawn)

\* the state after construction
Fresh ==
    [ balance |-> [c \in Categories |-> 0],
      amount_withdrawn |-> [c \in Categories |-> 0],
      ledger |-> [c \in Categories |-> <<>>],
      total_withdrawn |-> 0 ]

\* the state after, for each category of todo, a deposit that covers w[c]
\* and a withdraw of w[c]
RECURSIVE Spend(_, _, _)
Spend(st, w, todo) ==
    IF todo = {} THEN st
    ELSE LET c == CHOOSE x \in todo : TRUE
             funded == IF w[c] > 0 THEN deposit(st, c, w[c], <<>>) ELSE st
         IN  Spend(withdraw(funded, c, w[c], <<>>).st, w, todo \ {c})

InitChart ==
    /\ name \in [Categories -> Names]
    /\ \E w \in [Categories -> Withdrawals] :
         LET st == Spend(Fresh, w, Categories)
         IN  /\ balance = st.balance
             /\ amount_withdrawn = st.amount_withdrawn
             /\ ledger = st.ledger
             /\ total_withdrawn = st.total_withdrawn
    /\ last = Call("none", "c1", 0, <<>>, "c1", <<>>, FALSE, NoChart)

NextChart == \E l \in CategoryLists : CreateSpendChart(l)

SpecChart == InitChart /\ [][NextChart]_vars

\* ------------------------------------------------------------------ reports
\* "Transfer to Entertainment": a description of more than 23 characters
LongDescription ==
    TransferTo
    \o <<"E", "n", "t", "e", "r", "t", "a", "i", "n", "m", "e", "n", "t">>

\* the calls made on a category before its report is printed
ReportCalls ==
    [ op : {"deposit", "withdraw"},
      amount : {0, 5, 12345},
      description : {<<>>, <<"d">>, LongDescription} ]

\* the state after the calls of a sequence, made in order on one category
RECURSIVE AfterCalls(_, _, _)
AfterCalls(st, self, calls) ==
    IF calls = <<>> THEN st
    ELSE LET call == calls[1]
             next == IF call.op = "deposit"
                     THEN deposit(st, self, call.amount, call.description)
                     ELSE withdraw(st, self, call.amount,
                                   call.description).st
         IN  AfterCalls(next, self, SubSeq(calls, 2, Len(calls)))

InitStr ==
    /\ name \in [Categories -> Names]
    /\ \E n \in 0 .. MaxReport : \E calls \in [1 .. n -> ReportCalls] :
         LET st == AfterCalls(Fresh, "c1", calls)
         IN  /\ balance = st.balance
             /\ amount_withdrawn = st.amount_withdrawn
             /\ ledger = st.ledger
             /\ total_withdrawn = st.total_withdrawn
    /\ last = Call("none", "c1", 0, <<>>, "c1", <<>>, FALSE, NoChart)

\* str(category): the report is kept where a chart's string is
StrCall(self) ==
    /\ last' = Call("__str__", self, 0, <<>>, self, <<>>, TRUE,
                    [ status |-> "ok", array |-> <<>>,
                      string |-> str(State, self) ])
    /\ UNCHANGED <<name, balance, amount_withdrawn, ledger, total_withdrawn>>

NextStr == \E c \in Categories : StrCall(c)

SpecStr == InitStr /\ [][NextStr]_vars

\* ------------------------------------------------------------------ claims
\* the latest call was a call of op
IsCall(call, op) == call.op = op

\* C1: in every reachable state every category's balance is the sum of the
\* amounts of the entries of its own ledger
BalanceIsLedgerSum ==
    \A c \in Categories : balance[c] = SumAmounts(ledger[c])

BalanceIsLedgerSumWitness ==
    \E c \in Categories :
        /\ Len(ledger[c]) >= 2
        /\ balance[c] # 0
        /\ \E i \in 1 .. Len(ledger[c]) : ledger[c][i].amount < 0
        /\ \E i \in 1 .. Len(ledger[c]) : ledger[c][i].amount > 0

\* C2: a withdraw of more than the balance at call time returns False and
\* leaves the category's balance, amount_withdrawn and ledger and the
\* class-wide total_withdrawn as they were
FailedWithdrawChangesNothing ==
    [][ (IsCall(last', "withdraw") /\ last'.amount > balance[last'.self])
        => /\ last'.ret = FALSE
           /\ balance'[last'.self] = balance[last'.self]
           /\ amount_withdrawn'[last'.self] = amount_withdrawn[last'.self]
           /\ ledger'[last'.self] = ledger[last'.self]
           /\ total_withdrawn' = total_withdrawn ]_vars

FailedWithdrawWitness ==
    /\ IsCall(last, "withdraw")
    /\ last.amount > balance[last.self]
    /\ last.ret = FALSE
    /\ ledger[last.self] # <<>>

\* C3 as stated: after a transfer that returns True, for every source and
\* target, the source's balance is down by amount, the target's balance up by
\* amount, the source's amount_withdrawn and total_withdrawn up by amount
TransferMovesAmount ==
    [][ (IsCall(last', "transfer") /\ last'.ret = TRUE)
        => /\ balance'[last'.self] = balance[last'.self] - last'.amount
           /\ balance'[last'.category]
                  = balance[last'.category] + last'.amount
           /\ amount_withdrawn'[last'.self]
                  = amount_withdrawn[last'.self] + last'.amount
           /\ total_withdrawn' = total_withdrawn + last'.amount ]_vars

\* C3 as amended: the balances move as stated when source and target are
\* different categories; when they are the same category its balance is
\* unchanged; amount_withdrawn and total_withdrawn go up by amount, once,
\* either way
TransferMovesAmountBetweenDistinct ==
    [][ (IsCall(last', "transfer") /\ last'.ret = TRUE)
        => /\ last'.self # last'.category
                => /\ balance'[last'.self]
                          = balance[last'.self] - last'.amount
                   /\ balance'[last'.category]
                          = balance[last'.category] + last'.amount
           /\ last'.self = last'.category
                => balance'[last'.self] = balance[last'.self]
           /\ amount_withdrawn'[last'.self]
                  = amount_withdrawn[last'.self] + last'.amount
           /\ total_withdrawn' = total_withdrawn + last'.amount ]_vars

TransferWitness ==
    /\ IsCall(last, "transfer")
    /\ last.ret = TRUE
    /\ last.self # last.category
    /\ last.amount > 0
    /\ balance[last.category] >= last.amount
    /\ total_withdrawn >= last.amount

\* C4: a transfer of more than the source's balance returns False and leaves
\* balance, amount_withdrawn and ledger of source and target, and
\* total_withdrawn, as they were
FailedTransferChangesNothing ==
    [][ (IsCall(last', "transfer") /\ last'.amount > balance[last'.self])
        => /\ last'.ret = FALSE
           /\ \A c \in {last'.self, last'.category} :
                  /\ balance'[c] = balance[c]
                  /\ amount_withdrawn'[c] = amount_withdrawn[c]
                  /\ ledger'[c] = ledger[c]
           /\ total_withdrawn' = total_withdrawn ]_vars

FailedTransferWitness ==
    /\ IsCall(last, "transfer")
    /\ last.amount > balance[last.self]
    /\ last.ret = FALSE
    /\ last.self # last.category
    /\ Entries > 0

\* C5: total_withdrawn is the sum of amount_withdrawn over the categories,
\* and a step changes total_withdrawn exactly when it changes one category's
\* amount_withdrawn, by the same amount
TotalIsSumOfWithdrawn ==
    /\ [](total_withdrawn = SumOver(amount_withdrawn, Categories))
    /\ [][ (total_withdrawn' # total_withdrawn
               \/ amount_withdrawn' # amount_withdrawn)
           => \E c \in Categories :
                 /\ amount_withdrawn'[c] # amount_withdrawn[c]
                 /\ amount_withdrawn'[c] - amount_withdrawn[c]
                        = total_withdrawn' - total_withdrawn
                 /\ \A d \in Categories \ {c} :
                        amount_withdrawn'[d] = amount_withdrawn[d] ]_vars

TotalIsSumWitness ==
    /\ \A c \in Categories : amount_withdrawn[c] # 0
    /\ total_withdrawn # 0
    /\ \E c \in Categories : amount_withdrawn[c] # total_withdrawn

\* C6: total_withdrawn starts at 0 and no step of deposit, withdraw or
\* transfer, with any amount, decreases it
TotalWithdrawnNeverDecreases ==
    /\ total_withdrawn = 0
    /\ [][total_withdrawn' >= total_withdrawn]_vars

\* C7: every category's amount_withdrawn starts at 0, is never negative,
\* never decreases, and changes only in a successful withdraw from, or
\* transfer out of, that category
AmountWithdrawnOnlyGrows ==
    /\ \A c \in Categories : amount_withdrawn[c] = 0
    /\ [](\A c \in Categories : amount_withdrawn[c] >= 0)
    /\ [][ \A c \in Categories :
              /\ amount_withdrawn'[c] >= amount_withdrawn[c]
              /\ amount_withdrawn'[c] # amount_withdrawn[c]
                     => /\ last'.op \in {"withdraw", "transfer"}
                        /\ last'.ret = TRUE
                        /\ last'.self = c ]_vars

BarMarksUpToBucket ==
    (IsCall(last, "create_spend_chart") /\ last.chart.status = "ok")
    => \A k \in 1 .. Len(last.categories), r \in 0 .. 10 :
          LET bucket == percentage_spent(State, last.categories[k])
              cell == last.chart.array[r][3 * k]
          IN  IF 100 - 10 * r <= bucket THEN cell = <<"o">> ELSE cell = None

\* C10: create_spend_chart on a non-empty list while total_withdrawn is 0 ends
\* in the division error, returns no string, and changes no category state
\* nor total_withdrawn
ChartWithNothingWithdrawn ==
    /\ []( ( /\ IsCall(last, "create_spend_chart")
             /\ last.categories # <<>>
             /\ total_withdrawn = 0 )
           => /\ last.chart.status = "ZeroDivisionError"
              /\ last.chart.string = <<>>
              /\ last.chart.array = <<>> )
    /\ [][ IsCall(last', "create_spend_chart")
           => UNCHANGED <<name, balance, amount_withdrawn, ledger,
                          total_withdrawn>> ]_vars

ChartWithNothingWithdrawnWitness ==
    /\ IsCall(last, "create_spend_chart")
    /\ Len(last.categories) = 2
    /\ total_withdrawn = 0
    /\ \E c \in Categories : amount_withdrawn[c] # 0
    /\ last.chart.status = "ZeroDivisionError"

\* ------------------------------------------------------------------ ledger
\* C14 as stated: in every reachable state every balance is at least 0
BalanceNeverNegative ==
    \A c \in Categories : balance[c] >= 0

\* the latest call deposited a negative amount into c: a deposit on c, or a
\* transfer that returned True with c as its target
NegativeDepositInto(call, c) ==
    /\ call.amount < 0
    /\ \/ IsCall(call, "deposit") /\ call.self = c
       \/ IsCall(call, "transfer") /\ call.ret = TRUE /\ call.category = c

\* C14 as amended: a balance that is at least 0 becomes negative only by a
\* deposit of a negative amount into the category, made directly or as the
\* target of a transfer; no withdraw and no transfer out makes it negative
BalanceNegativeOnlyByDeposit ==
    [][ \A c \in Categories :
           (balance[c] >= 0 /\ balance'[c] < 0)
           => NegativeDepositInto(last', c) ]_vars

BalanceNegativeWitness ==
    /\ IsCall(last, "transfer")
    /\ last.ret = TRUE
    /\ balance[last.category] < 0
    /\ balance[last.self] > 0

\* the entries a call adds to the ledger of c: one for a deposit into c, one
\* for a withdraw from c that returned True, none for a call that returned
\* False
EntriesAdded(call, c) ==
    (IF IsCall(call, "deposit") /\ call.self = c THEN 1 ELSE 0)
    + (IF IsCall(call, "withdraw") /\ call.ret = TRUE /\ call.self = c
       THEN 1 ELSE 0)
    + (IF IsCall(call, "transfer") /\ call.ret = TRUE /\ call.self = c
       THEN 1 ELSE 0)
    + (IF IsCall(call, "transfer") /\ call.ret = TRUE /\ call.category = c
       THEN 1 ELSE 0)

\* the ledger length counts the deposits and the successful withdrawals
LedgerCountsCalls ==
    /\ \A c \in Categories : ledger[c] = <<>>
    /\ [][ \A c \in Categories :
              Len(ledger'[c]) = Len(ledger[c]) + EntriesAdded(last', c) ]_vars

\* C15 as stated: the ledger length counts the deposits and the successful
\* withdrawals, and every entry has a non-zero amount
LedgerCountsCallsNonZero ==
    /\ LedgerCountsCalls
    /\ [](\A c \in Categories : \A i \in 1 .. Len(ledger[c]) :
             ledger[c][i].amount # 0)

\* C15 as amended: the ledger length counts the deposits and the successful
\* withdrawals, and an entry's amount is 0 only for a call with amount 0
LedgerCountsCallsZeroOnlyForZero ==
    /\ LedgerCountsCalls
    /\ [][ \A c \in Categories :
              \A i \in Len(ledger[c]) + 1 .. Len(ledger'[c]) :
                 ledger'[c][i].amount = 0 <=> last'.amount = 0 ]_vars

LedgerCountsWitness ==
    /\ IsCall(last, "withdraw")
    /\ last.ret = FALSE
    /\ Len(ledger[last.self]) = 2
    /\ ledger[last.self][1].amount = 0
    /\ ledger[last.self][2].amount # 0

\* s is a prefix of t
IsPrefix(s, t) == Len(s) <= Len(t) /\ SubSeq(t, 1, Len(s)) = s

\* C16: in every step each ledger is a prefix of what it becomes, and grows
\* by at most one entry unless the step is a transfer from a category to
\* itself
LedgerAppendOnly ==
    [][ \A c \in Categories :
           /\ IsPrefix(ledger[c], ledger'[c])
           /\ Len(ledger'[c]) > Len(ledger[c]) + 1
              => /\ IsCall(last', "transfer")
                 /\ last'.self = c
                 /\ last'.category = c ]_vars

LedgerAppendOnlyWitness ==
    /\ IsCall(last, "transfer")
    /\ last.self = last.category
    /\ last.ret = TRUE
    /\ Len(ledger[last.self]) = 3

\* C17: a deposit of any amount changes the category's balance by amount,
\* appends the one entry {amount, description} to its ledger, and leaves its
\* amount_withdrawn, total_withdrawn and every other category as they were
DepositFrame ==
    [][ IsCall(last', "deposit")
        => LET c == last'.self
           IN  /\ last'.ret = TRUE
               /\ balance'[c] = balance[c] + last'.amount
               /\ ledger'[c]
                     = ledger[c] \o <<[amount |-> last'.amount,
                                      description |-> last'.description]>>
               /\ amount_withdrawn' = amount_withdrawn
               /\ total_withdrawn' = total_withdrawn
               /\ \A d \in Categories \ {c} :
                     balance'[d] = balance[d] /\ ledger'[d] = ledger[d] ]_vars

DepositFrameWitness ==
    /\ IsCall(last, "deposit")
    /\ last.amount < 0
    /\ last.description # <<>>
    /\ balance[last.self] < 0
    /\ Len(ledger[last.self]) = 2

\* ------------------------------------------------------------------ chart text
\* the lines of a string: the pieces between its line breaks
RECURSIVE SplitLines(_)
SplitLines(s) ==
    IF \A i \in 1 .. Len(s) : s[i] # "\n" THEN <<s>>
    ELSE LET i == CHOOSE j \in 1 .. Len(s) :
                      s[j] = "\n" /\ \A k \in 1 .. j - 1 : s[k] # "\n"
         IN  <<SubSeq(s, 1, i - 1)>> \o SplitLines(SubSeq(s, i + 1, Len(s)))

RECURSIVE Flatten(_)
Flatten(pieces) ==
    IF pieces = <<>> THEN <<>>
    ELSE pieces[1] \o Flatten(SubSeq(pieces, 2, Len(pieces)))

\* a chart was drawn by the latest call
ChartDrawn == IsCall(last, "create_spend_chart") /\ last.chart.status = "ok"

\* the lines of the chart the latest call returned
ChartLines == SplitLines(last.chart.string)

\* the text of the cells of row r of the array, an unset cell as one space
RowCells(r) ==
    LET row == last.chart.array[r]
    IN  Flatten([j \in 1 .. Cardinality(DOMAIN row) |->
                    IF row[j - 1] = None THEN <<" ">> ELSE row[j - 1]])

\* the spaces a label narrower than "100" is padded with on the left
RowPad(r) == IF r = 0 THEN <<>> ELSE IF r < 10 THEN <<" ">> ELSE <<" ", " ">>

Has(line, ch) == \E i \in 1 .. Len(line) : line[i] = ch

\* C11: the chart string has, after its title line, one line per row of the
\* grid (eleven axis rows, the dash row, one row per character of the longest
\* name), top to bottom, every unset cell as one space, and does not end
\* with a line break
OneLinePerRow ==
    ChartDrawn
    => LET h == 12 + longest_name(last.categories)
       IN  /\ Cardinality(DOMAIN last.chart.array) = h
           /\ Len(ChartLines) = h + 1
           /\ last.chart.string[Len(last.chart.string)] # "\n"
           /\ \A r \in 0 .. h - 1 :
                 /\ ChartLines[r + 2] = RowPad(r) \o RowCells(r)
                 /\ Has(ChartLines[r + 2], "|") <=> r <= 10
                 /\ Has(ChartLines[r + 2], "-") <=> r = 11

OneLinePerRowWitness ==
    /\ ChartDrawn
    /\ Len(last.categories) = 2
    /\ name[last.categories[1]] # name[last.categories[2]]
    /\ Len(ChartLines) = 17

\* C13 as stated: on the axis rows the label 0 has exactly one space before
\* it and the label 100 none, each label followed at once by "|"
AxisLabelsOneSpace ==
    ChartDrawn
    => /\ SubSeq(ChartLines[2], 1, 4) = <<"1", "0", "0", "|">>
       /\ SubSeq(ChartLines[12], 1, 3) = <<" ", "0", "|">>

\* C13 as amended: the labels are right-aligned in three characters: 100 has
\* no space before it, the two-digit labels one, the label 0 two; each label
\* is followed at once by "|"
AxisLabelsRightAligned ==
    ChartDrawn
    => \A r \in 0 .. 10 :
          LET label == Decimal(100 - 10 * r)
              pad == [i \in 1 .. 3 - Len(label) |-> " "]
          IN  SubSeq(ChartLines[r + 2], 1, 4) = pad \o label \o <<"|">>

AxisLabelsWitness ==
    /\ ChartDrawn
    /\ SubSeq(ChartLines[12], 1, 4) = <<" ", " ", "0", "|">>
    /\ SubSeq(ChartLines[3], 1, 4) = <<" ", "9", "0", "|">>

\* C18: whenever total_withdrawn is not 0, every category's bucket is a
\* multiple of 10 from 0 to 100
BucketInRange ==
    total_withdrawn # 0
    => \A c \in Categories :
          /\ percentage_spent(State, c) % 10 = 0
          /\ percentage_spent(State, c) >= 0
          /\ percentage_spent(State, c) <= 100

\* the character position, in a line of the chart, of the k-th category's
\* column of the array
CategoryColumn(k) == 3 * k + 3

\* C19: beneath the dash row the k-th category's column holds its name, first
\* letter upper case and the rest lower case, one character per row, and
\* blanks from the end of the name down to the row of the longest name's
\* last character
NameBeneathBar ==
    ChartDrawn
    => LET longest == longest_name(last.categories)
       IN  /\ Len(ChartLines) = 13 + longest
           /\ \A k \in 1 .. Len(last.categories), i \in 1 .. longest :
                 LET text == name[last.categories[k]]
                     shown == ChartLines[13 + i][CategoryColumn(k)]
                     cell == last.chart.array[11 + i][3 * k]
                 IN  /\ i = 1 /\ i <= Len(text)
                        => shown = Upper(text[i]) /\ cell = <<shown>>
                     /\ i > 1 /\ i <= Len(text)
                        => shown = Lower(text[i]) /\ cell = <<shown>>
                     /\ i > Len(text) => shown = " " /\ cell = None

NameBeneathBarWitness ==
    /\ ChartDrawn
    /\ Len(last.categories) = 2
    /\ name[last.categories[1]] = <<"a", "B">>
    /\ name[last.categories[2]] = <<"f", "o", "o", "d">>
    /\ ChartLines[15][CategoryColumn(1)] = "b"
    /\ ChartLines[16][CategoryColumn(1)] = " "
    /\ ChartLines[16][CategoryColumn(2)] = "o"

\* C20: for n categories every line after the title is 3n + 5 characters
\* long; "|" is the fourth character of the eleven axis rows; a bar's marks
\* and its name are at one position, three apart from the next category's;
\* the dash row ends in exactly 3n + 1 dashes
LinesAligned ==
    ChartDrawn
    => LET n == Len(last.categories)
       IN  /\ \A l \in 2 .. Len(ChartLines) : Len(ChartLines[l]) = 3 * n + 5
           /\ \A r \in 0 .. 10 :
                 /\ ChartLines[r + 2][4] = "|"
                 /\ \A k \in 1 .. n :
                       (ChartLines[r + 2][CategoryColumn(k)] = "o")
                       <=> (last.chart.array[r][3 * k] = <<"o">>)
                 /\ \A p \in 5 .. 3 * n + 5 :
                       ChartLines[r + 2][p] = "o"
                       => \E k \in 1 .. n : p = CategoryColumn(k)
           /\ \A p \in 1 .. 3 * n + 5 :
                 (ChartLines[13][p] = "-") <=> (p >= 5)
           /\ \A l \in 14 .. Len(ChartLines), p \in 1 .. 3 * n + 5 :
                 ChartLines[l][p] # " "
                 => \E k \in 1 .. n : p = CategoryColumn(k)

LinesAlignedWitness ==
    /\ ChartDrawn
    /\ Len(last.categories) = 2
    /\ Len(ChartLines[13]) = 11
    /\ ChartLines[12][CategoryColumn(1)] = "o"
    /\ ChartLines[12][CategoryColumn(2)] = "o"
    /\ ChartLines[2][CategoryColumn(1)] = "o"

\* ------------------------------------------------------------------ report text
\* a report was printed by the latest call
ReportPrinted == IsCall(last, "__str__")

ReportLines == SplitLines(last.chart.string)

\* C12: the report has, between its title line and its "Total: " line, one
\* line per ledger entry, in ledger order, of exactly 30 characters: the
\* first 23 the description cut to 23 characters and padded with spaces on
\* the right, the last 7 the first 7 characters of the two-decimal amount,
\* pushed to the right
LedgerLinesFixedWidth ==
    ReportPrinted
    => LET items == ledger[last.self]
       IN  /\ Len(ReportLines) = Len(items) + 2
           /\ Len(ReportLines[1]) = 30
           /\ SubSeq(ReportLines[Len(ReportLines)], 1, 7) = Total
           /\ \A i \in 1 .. Len(items) :
                 LET line == ReportLines[i + 1]
                     text == items[i].description
                     amount == TwoDecimals(items[i].amount)
                     kept == IF Len(amount) > 7 THEN 7 ELSE Len(amount)
                 IN  /\ Len(line) = 30
                     /\ \A j \in 1 .. 23 :
                           line[j] = IF j <= Len(text) THEN text[j] ELSE " "
                     /\ \A j \in 1 .. 7 :
                           line[23 + j] = IF j <= 7 - kept THEN " "
                                          ELSE amount[j - (7 - kept)]

LedgerLinesWitness ==
    /\ ReportPrinted
    /\ Len(ledger[last.self]) = 2
    /\ ledger[last.self][1].description = LongDescription
    /\ ledger[last.self][1].amount = 12345
    /\ ledger[last.self][2].amount = -5
    /\ ledger[last.self][2].description = <<"d">>
    /\ SubSeq(ReportLines[2], 22, 30)
          = <<"m", "e", "1", "2", "3", "4", "5", ".", "0">>
    /\ SubSeq(ReportLines[3], 22, 30)
          = <<" ", " ", " ", " ", "-", "5", ".", "0", "0">>

====
